---- MODULE Spec2Model ----
(***************************************************************************)
(* Model of the exam-grading pipeline: the inference gateway               *)
(* (src/src/ai/ai_client.py), the judge (src/src/grading/ai_judge.py) and  *)
(* the score calculator (src/src/grading/score_calculator.py).             *)
(*                                                                         *)
(* Text is a sequence of one-character strings.  Python values that cross  *)
(* a component boundary (the decoded JSON reply, the judge result) are     *)
(* tagged records: [t |-> "num", n], [t |-> "str", s], [t |-> "null"],     *)
(* [t |-> "list", items], [t |-> "dict", m] with m a function from keys    *)
(* (texts) to values; [t |-> "null"] is Python's None.  A raised exception  *)
(* is [t |-> "exc", name, msg].                                            *)
(***************************************************************************)
EXTENDS Integers, Sequences, FiniteSets, TLC

\* ------------------------------------------------------------------ bounds
\* Largest max_retries the configuration supplies.
MaxRetries == 4
\* Largest 'points' of a configured question.
MaxPoints == 4
\* Longest question list / judge result list handed to the calculator.
MaxLen == 2
\* Largest max_exams handed to GradingSystem.run.
MaxExams == 2

\* ------------------------------------------------------------- text helpers
Min(a, b) == IF a <= b THEN a ELSE b
Max(a, b) == IF a >= b THEN a ELSE b

Whitespace == {" ", "\n", "\t"}

\* text[k:] for k >= 0 and text[:-k] for k > 0
DropLeft(text, k) == SubSeq(text, k + 1, Len(text))
DropRight(text, k) == SubSeq(text, 1, Len(text) - k)

\* str.startswith / str.endswith
startswith(text, prefix) ==
    /\ Len(prefix) <= Len(text)
    /\ SubSeq(text, 1, Len(prefix)) = prefix
endswith(text, suffix) ==
    /\ Len(suffix) <= Len(text)
    /\ SubSeq(text, Len(text) - Len(suffix) + 1, Len(text)) = suffix

\* str.strip(): drop leading and trailing whitespace
RECURSIVE lstrip(_)
lstrip(text) ==
    IF text # <<>> /\ Head(text) \in Whitespace THEN lstrip(Tail(text)) ELSE text
RECURSIVE rstrip(_)
rstrip(text) ==
    IF text # <<>> /\ text[Len(text)] \in Whitespace
    THEN rstrip(DropRight(text, 1)) ELSE text
strip(text) == rstrip(lstrip(text))

\* the backquote character (a TLA+ string cannot hold one)
BQ == "backquote"
\* the literals of chat_json
FENCE == <<BQ, BQ, BQ>>
FENCE_JSON == <<BQ, BQ, BQ, "j", "s", "o", "n">>

\* dictionary keys
K_score == <<"s", "c", "o", "r", "e">>
K_comment == <<"c", "o", "m", "m", "e", "n", "t">>
K_raw == <<"r", "a", "w">>
K_question_id == <<"q", "u", "e", "s", "t", "i", "o", "n", "_", "i", "d">>
K_id == <<"i", "d">>
K_text == <<"t", "e", "x", "t">>
K_answer == <<"a", "n", "s", "w", "e", "r">>
K_points == <<"p", "o", "i", "n", "t", "s">>

\* ------------------------------------------------------------ Python values
Num(n) == [t |-> "num", n |-> n]
Str(s) == [t |-> "str", s |-> s]
Null == [t |-> "null"]
List(items) == [t |-> "list", items |-> items]
Dict(m) == [t |-> "dict", m |-> m]
EmptyMap == [k \in {} |-> Null]
Exc(name, msg) == [t |-> "exc", name |-> name, msg |-> msg]
IsExc(v) == v.t = "exc"
\* dict.get(key, default) on the mapping m of a dict
Get(m, key, default) == IF key \in DOMAIN m THEN m[key] ELSE default

\* ---------------------------------------------------------------- json.loads
\* json.loads on the documents of the reply universe: numbers (-?digits),
\* strings without escapes, null, arrays of at most one scalar and objects
\* whose members are "key":scalar, written without inner whitespace.  Any
\* other text is a JSONDecodeError.
JSONDecodeError == [t |-> "JSONDecodeError"]

Digits == {"0", "1", "2", "3", "4", "5", "6", "7", "8", "9"}
DigitVal(c) ==
    CASE c = "0" -> 0 [] c = "1" -> 1 [] c = "2" -> 2 [] c = "3" -> 3
      [] c = "4" -> 4 [] c = "5" -> 5 [] c = "6" -> 6 [] c = "7" -> 7
      [] c = "8" -> 8 [] c = "9" -> 9
IsDigits(s) == Len(s) > 0 /\ \A i \in 1..Len(s) : s[i] \in Digits
RECURSIVE DigitsVal(_)
DigitsVal(s) ==
    IF s = <<>> THEN 0
    ELSE DigitsVal(DropRight(s, 1)) * 10 + DigitVal(s[Len(s)])

\* a JSON integer: optional minus, digits, no leading zero
IsJsonInt(s) ==
    LET d == IF s # <<>> /\ Head(s) = "-" THEN Tail(s) ELSE s
    IN  IsDigits(d) /\ (Len(d) = 1 \/ d[1] # "0")
JsonIntVal(s) ==
    IF Head(s) = "-" THEN 0 - DigitsVal(Tail(s)) ELSE DigitsVal(s)

IsJsonString(s) ==
    /\ Len(s) >= 2
    /\ s[1] = "\"" /\ s[Len(s)] = "\""
    /\ \A i \in 2..(Len(s) - 1) : s[i] \notin {"\"", "\\", "\n", "\t"}

IsError(v) == v.t = "JSONDecodeError"

ParseScalar(s) ==
    IF IsJsonInt(s) THEN Num(JsonIntVal(s))
    ELSE IF IsJsonString(s) THEN Str(SubSeq(s, 2, Len(s) - 1))
    ELSE IF s = <<"n", "u", "l", "l">> THEN Null
    ELSE JSONDecodeError

\* position i of s lies inside a string literal
InQuote(s, i) == Cardinality({j \in 1..(i - 1) : s[j] = "\""}) % 2 = 1
TopCommas(s) == {i \in 1..Len(s) : s[i] = "," /\ ~InQuote(s, i)}
SetMin(S) == CHOOSE x \in S : \A y \in S : x <= y

\* one member "key":scalar -> [ok, key, val]
ParseMember(s) ==
    LET closing == {i \in 2..Len(s) : s[i] = "\""}
        bad == [ok |-> FALSE, key |-> <<>>, val |-> Null]
    IN  IF Len(s) < 4 \/ s[1] # "\"" \/ closing = {} THEN bad
        ELSE LET q == SetMin(closing)
                 key == SubSeq(s, 1, q)
                 val == ParseScalar(DropLeft(s, q + 1))
             IN  IF q + 1 > Len(s) \/ s[q + 1] # ":" \/ ~IsJsonString(key)
                    \/ IsError(val)
                 THEN bad
                 ELSE [ok |-> TRUE, key |-> SubSeq(key, 2, Len(key) - 1),
                       val |-> val]

\* the members between the braces; a later duplicate key wins
RECURSIVE ParseMembers(_, _)
ParseMembers(s, acc) ==
    LET commas == TopCommas(s)
        first == IF commas = {} THEN s ELSE SubSeq(s, 1, SetMin(commas) - 1)
        member == ParseMember(first)
    IN  IF ~member.ok THEN JSONDecodeError
        ELSE LET acc2 == (member.key :> member.val) @@ acc
             IN  IF commas = {} THEN Dict(acc2)
                 ELSE ParseMembers(DropLeft(s, SetMin(commas)), acc2)

json_loads(s) ==
    IF s = <<>> THEN JSONDecodeError
    ELSE IF s[1] = "{" THEN
        IF Len(s) < 2 \/ s[Len(s)] # "}" THEN JSONDecodeError
        ELSE IF Len(s) = 2 THEN Dict(EmptyMap)
        ELSE ParseMembers(SubSeq(s, 2, Len(s) - 1), EmptyMap)
    ELSE IF s[1] = "[" THEN
        IF Len(s) < 2 \/ s[Len(s)] # "]" THEN JSONDecodeError
        ELSE IF Len(s) = 2 THEN List(<<>>)
        ELSE LET item == ParseScalar(SubSeq(s, 2, Len(s) - 1))
             IN  IF IsError(item) THEN JSONDecodeError
                 ELSE List(<<item>>)
    ELSE ParseScalar(s)

\* ------------------------------------------------------- AIClient.chat_json
\* a stripping that leaves the trailing marker in place
StripFences_Mut(response_text) ==
    LET t0 == strip(response_text)
        t1 == IF startswith(t0, FENCE_JSON) THEN DropLeft(t0, 7) ELSE t0
        t2 == IF startswith(t1, FENCE) THEN DropLeft(t1, 3) ELSE t1
    IN  t2
\* ai_client.py:124-130: strip, then drop a leading FENCE_JSON, a leading
\* FENCE and a trailing FENCE (three independent tests, in this order)
StripFences(response_text) ==
    LET t0 == strip(response_text)
        t1 == IF startswith(t0, FENCE_JSON) THEN DropLeft(t0, 7) ELSE t0
        t2 == IF startswith(t1, FENCE) THEN DropLeft(t1, 3) ELSE t1
        t3 == IF endswith(t2, FENCE) THEN DropRight(t2, 3) ELSE t2
    IN  t3

\* ai_client.py:135: the soft-failure sentinel
RawSentinel(response_text) == Dict(K_raw :> Str(response_text))

\* a sentinel holding the stripped text
chat_json_decode_Mut(response_text) ==
    LET parsed == json_loads(strip(StripFences(response_text)))
    IN  IF IsError(parsed) THEN RawSentinel(strip(response_text)) ELSE parsed
\* ai_client.py:121-135, for a response text that chat returned
chat_json_decode(response_text) ==
    LET parsed == json_loads(strip(StripFences(response_text)))
    IN  IF IsError(parsed) THEN RawSentinel(response_text) ELSE parsed

\* ---------------------------------------------------------- AIClient.chat
\* a loop test that is off by one
IsLastAttempt_Mut(attempt, retries) == attempt = retries
\* ai_client.py:95: the test that ends the retry loop with an error
IsLastAttempt(attempt, retries) == attempt = retries - 1

\* an exponential backoff
WaitTime_Mut(attempt) == 2 ^ (attempt + 1)
\* ai_client.py:99: seconds slept after the failed attempt with this index
WaitTime(attempt) == (attempt + 1) * 2

\* ai_client.py:96: the error raised after the last failed attempt
ChatError == Exc("RuntimeError", <<"A", "I", " ", "c", "a", "l", "l">>)

\* ai_client.py:124 on None: chat fell off the end of its loop
NoneStripError == Exc("AttributeError", <<"s", "t", "r", "i", "p">>)

\* ----------------------------------------------------------------- AIJudge
\* the keyword arguments _build_prompt passes to str.format
FormatKwargs ==
    {"question", "standard_answer", "student_answer", "max_points"}

\* ai_judge.py:78-83: str.format raises KeyError for a replacement field
\* that is not among the keyword arguments; a template is the set of the
\* replacement fields it holds
BuildPromptRaises(prompt_template) == ~(prompt_template \subseteq FormatKwargs)

\* ai_judge.py:78-83: the values substituted for the template's fields
_build_prompt(prompt_template, q, student_answer) ==
    LET kwargs == ("question" :> Get(q.m, K_text, Str(<<>>)))
               @@ ("standard_answer" :> Get(q.m, K_answer, Str(<<>>)))
               @@ ("student_answer" :> Str(student_answer))
               @@ ("max_points" :> Get(q.m, K_points, Num(10)))
    IN  [f \in prompt_template |-> kwargs[f]]

\* float(x) of ai_judge.py:106 on the values a reply can carry: a number, or
\* a string holding an integer (float strips whitespace); ValueError on any
\* other string, TypeError on None, a list or a dict
FloatRaises(v) ==
    CASE v.t = "num" -> FALSE
      [] v.t = "str" -> ~IsJsonInt(strip(v.s))
      [] OTHER -> TRUE
FloatOf(v) == IF v.t = "num" THEN v.n ELSE JsonIntVal(strip(v.s))

\* a clamp without its lower bound
Clamp_Mut(score, max_points) == Min(score, max_points)
\* ai_judge.py:110
Clamp(score, max_points) == Max(0, Min(score, max_points))

\* ai_judge.py:100-115; result.get raises AttributeError unless result is a
\* dict
_parse_result(result, max_points) ==
    IF result.t # "dict"
    THEN Exc("AttributeError", <<"g", "e", "t">>)
    ELSE LET score == Get(result.m, K_score, Num(0))
             comment == Get(result.m, K_comment, Str(<<>>))
             coerced == IF FloatRaises(score) THEN 0 ELSE FloatOf(score)
         IN  Dict((K_score :> Num(Clamp(coerced, max_points)))
                  @@ (K_comment :> comment))

\* ai_judge.py:59: the prefix of the failure comment
FailPrefix == <<"j", "u", "d", "g", "e", " ", "f", "a", "i", "l", "e", "d",
                ":", " ">>

\* ai_judge.py:54-61: the result of the except branch
JudgeFailure(e, q) ==
    Dict((K_score :> Num(0))
         @@ (K_comment :> Str(FailPrefix \o e.msg))
         @@ (K_question_id :> Get(q.m, K_id, Null)))

\* ai_judge.py:52: question["points"] is looked up (KeyError when absent),
\* then _parse_result runs
JudgeTryParse(result, q) ==
    IF K_points \notin DOMAIN q.m
    THEN Exc("KeyError", K_points)
    ELSE _parse_result(result, q.m[K_points].n)

\* ai_judge.py:47-61 once chat_json has returned: the try body's second
\* statement and the except branch
JudgeAfterChatJson(result, q) ==
    LET r == JudgeTryParse(result, q)
    IN  IF IsExc(r) THEN JudgeFailure(r, q) ELSE r

\* --------------------------------------------------------- ScoreCalculator
\* score_calculator.py:22: the sum of the questions' points, 0 for a
\* question without 'points'
RECURSIVE SumPoints(_)
SumPoints(qs) ==
    IF qs = <<>> THEN 0
    ELSE Get(Head(qs).m, K_points, Num(0)).n + SumPoints(Tail(qs))

\* score_calculator.py:34: the sum of the score of every judge result, 0
\* for a result without 'score'
RECURSIVE calculate_total(_)
calculate_total(results) ==
    IF results = <<>> THEN 0
    ELSE Get(Head(results).m, K_score, Num(0)).n
         + calculate_total(Tail(results))

\* score_calculator.py:53-60: the entry of zip position i (1-based here, so
\* the default id i + 1 of the 0-based source is i)
DetailOf(i, q, result) ==
    [question_id |-> Get(q.m, K_id, Num(i)),
     question |-> Get(q.m, K_text, Str(<<>>)),
     max_points |-> Get(q.m, K_points, Num(0)).n,
     score |-> Get(result.m, K_score, Num(0)).n,
     comment |-> Get(result.m, K_comment, Str(<<>>))]

\* a percentage cut off after two decimals
PercentX100_Mut(n, d) == (n * 10000) \div d
\* round(n / d * 100, 2) in hundredths of a percent, ties to even
PercentX100(n, d) ==
    LET num == n * 10000
        low == num \div d
        twice == 2 * (num % d)
    IN  IF twice < d THEN low
        ELSE IF twice > d THEN low + 1
        ELSE IF low % 2 = 0 THEN low ELSE low + 1

\* details padded to the question list with empty results
generate_report_Mut(qs, passing, results) ==
    LET total_score == calculate_total(results)
        max_score == SumPoints(qs)
    IN  [t |-> "report",
         total_score |-> total_score,
         max_score |-> max_score,
         passing_score |-> passing,
         percentage_x100 |->
             IF max_score > 0 THEN PercentX100(total_score, max_score) ELSE 0,
         passed |-> total_score >= passing,
         details |-> [i \in 1..Len(qs) |->
             DetailOf(i, qs[i],
                      IF i <= Len(results) THEN results[i]
                      ELSE Dict(EmptyMap))]]
\* score_calculator.py:49-71
generate_report(qs, passing, results) ==
    LET total_score == calculate_total(results)
        max_score == SumPoints(qs)
        n == Min(Len(qs), Len(results))
    IN  [t |-> "report",
         total_score |-> total_score,
         max_score |-> max_score,
         passing_score |-> passing,
         percentage_x100 |->
             IF max_score > 0 THEN PercentX100(total_score, max_score) ELSE 0,
         passed |-> total_score >= passing,
         details |-> [i \in 1..n |-> DetailOf(i, qs[i], results[i])]]

\* ------------------------------------------------------------ input universe
Quoted(s) == <<"\"">> \o s \o <<"\"">>
Member(key, valtext) == Quoted(key) \o <<":">> \o valtext
Object(members) == <<"{">> \o members \o <<"}">>

\* reply bodies: objects with scores below, inside and above the range, a
\* score given as a string, a score that is no number, a missing score, and
\* JSON documents that are no object, and text that is no JSON
ReplyBodies ==
    { Object(Member(K_score, <<"0">>)),
      Object(Member(K_score, <<"3">>)),
      Object(Member(K_score, <<"-", "2">>)),
      Object(Member(K_score, <<"9", "7">>)),
      Object(Member(K_score, Quoted(<<"1">>))),
      Object(Member(K_score, Quoted(<<"x">>))),
      Object(Member(K_score, <<"n", "u", "l", "l">>)),
      Object(Member(K_comment, Quoted(<<"o", "k">>))),
      Object(Member(K_score, <<"2">>) \o <<",">>
             \o Member(K_comment, Quoted(<<"o", "k">>))),
      <<"{", "}">>,
      <<"[", "1", "]">>,
      <<"5">>,
      <<"n", "u", "l", "l">>,
      Quoted(<<"h", "i">>),
      <<"x", "{">>,
      <<>> }
ReplyPrefixes ==
    { <<>>, <<" ">>, FENCE \o <<"\n">>, FENCE_JSON \o <<"\n">>,
      FENCE_JSON \o FENCE }
ReplySuffixes == { <<>>, FENCE, <<"\n">> \o FENCE \o <<"\n">> }

\* ai_client.py:92: the texts a successful completion call can carry (a
\* None content is returned as the empty text)
Responses ==
    { pre \o body \o suf :
        pre \in ReplyPrefixes, body \in ReplyBodies, suf \in ReplySuffixes }

QuestionOf(p) ==
    Dict((K_id :> Num(1)) @@ (K_text :> Str(<<"Q">>))
         @@ (K_answer :> Str(<<"A">>)) @@ (K_points :> Num(p)))
\* the configured questions: every 'points' up to the bound, one question
\* without 'points' and one without 'id'
Questions ==
    { QuestionOf(p) : p \in 0..MaxPoints }
    \cup { Dict((K_id :> Num(1)) @@ (K_text :> Str(<<"Q">>))),
           Dict((K_text :> Str(<<"Q">>)) @@ (K_points :> Num(MaxPoints))) }

\* prompt templates: the built-in ones (prompt_templates.py:12-61 hold the
\* four fields), one without fields and a custom one with an unknown field
Templates ==
    { FormatKwargs, {}, {"question", "student_answer", "rubric"} }

StudentAnswer == <<"a", "n", "s">>

\* judge results handed to the calculator: results of _parse_result, of the
\* except branch of judge, and one without 'score'
ResultScores == {0, 1, MaxPoints}
ReportResults ==
    { Dict((K_score :> Num(n)) @@ (K_comment :> Str(<<"o", "k">>))) :
        n \in ResultScores }
    \cup { JudgeFailure(ChatError, QuestionOf(1)),
           Dict(K_comment :> Str(<<"o", "k">>)) }
\* two questions worth 10 and 20 points, judged 8 and 15
ExampleQuestions ==
    { QuestionOf(10),
      Dict((K_id :> Num(2)) @@ (K_text :> Str(<<"R">>))
           @@ (K_answer :> Str(<<"B">>)) @@ (K_points :> Num(20))) }
ExampleResults ==
    { Dict((K_score :> Num(n)) @@ (K_comment :> Str(<<"o", "k">>))) :
        n \in {8, 15} }
PassingScores == {2, 60}
ListsOf(S) == UNION { [1..n -> S] : n \in 0..MaxLen }

\* max_retries comes from the configuration unchecked (ai_client.py:30)
RetryValues == (0 - 1)..MaxRetries

\* ---------------------------------------------------------------------- state
VARIABLES
    pc,              \* where the judge call, the report or the run stands
    question,        \* argument of AIJudge.judge
    prompt_template, \* AIJudge.prompt_template
    max_retries,     \* AIClient.max_retries
    prompt,          \* local of judge
    attempt,         \* loop variable of AIClient.chat
    events,          \* completion calls and sleeps of chat, in order
    chat_ret,        \* what chat returned
    json_ret,        \* what chat_json returned
    raised,          \* the last exception raised, or Null
    judge_ret,       \* what judge returned
    questions,       \* ScoreCalculator.questions
    passing_score,   \* ScoreCalculator.passing_score
    judge_results,   \* argument of generate_report
    report,          \* what generate_report returned
    max_exams,       \* argument of GradingSystem.run
    processed,       \* local of run
    started,         \* number of process_exam calls run has made
    success,         \* what the last process_exam returned
    exam_log,        \* the steps of the current exam attempt, in order
    recognized_text, \* local of process_exam
    q_index,         \* position of the judging loop in the question list
    in_flight,       \* judge calls that have not returned
    field_value,     \* content of the score input of the page
    page             \* number of clicks on 'next' the page has received

vars == <<pc, question, prompt_template, max_retries, prompt, attempt, events,
          chat_ret, json_ret, raised, judge_ret, questions, passing_score,
          judge_results, report, max_exams, processed, started, success,
          exam_log, recognized_text, q_index, in_flight, field_value, page>>
runVars == <<max_exams, processed, started, success, exam_log,
             recognized_text, q_index, in_flight, field_value, page>>
reportVars == <<questions, passing_score, judge_results, report>>

\* ai_client.py:91-92: a completion call, failed (ok = FALSE) or answered
\* with a text
CallEvent(ok, text) == [ev |-> "call", ok |-> ok, text |-> text, secs |-> 0]
\* ai_client.py:100: time.sleep(secs)
SleepEvent(secs) == [ev |-> "sleep", ok |-> FALSE, text |-> <<>>, secs |-> secs]

NoReport == [t |-> "none", total_score |-> 0, max_score |-> 0,
             passing_score |-> 0, percentage_x100 |-> 0, passed |-> FALSE,
             details |-> <<>>]

JudgeIdle ==
    /\ prompt = Null
    /\ attempt = 0
    /\ events = <<>>
    /\ chat_ret = Null
    /\ json_ret = Null
    /\ raised = Null
    /\ judge_ret = Null

\* main.py:184 and the page before the first exam
RunIdle ==
    /\ max_exams = Null
    /\ processed = 0
    /\ started = 0
    /\ success = FALSE
    /\ exam_log = <<>>
    /\ recognized_text = <<>>
    /\ q_index = 0
    /\ in_flight = 0
    /\ field_value = Null
    /\ page = 0

ReportIdle ==
    /\ questions = <<>>
    /\ passing_score = 60
    /\ judge_results = <<>>
    /\ report = NoReport

\* a call judge(question, student_answer) on a judge built from any
\* configuration
Init ==
    /\ pc = "judge"
    /\ question \in Questions
    /\ prompt_template \in Templates
    /\ max_retries \in RetryValues
    /\ JudgeIdle
    /\ ReportIdle
    /\ RunIdle

\* ai_judge.py:45: _build_prompt runs before the try statement, so its
\* exception leaves judge; otherwise judge enters chat_json and chat
JudgeBuildPrompt ==
    /\ pc = "judge"
    /\ IF BuildPromptRaises(prompt_template)
       THEN /\ pc' = "judge_raised"
            /\ raised' = Exc("KeyError", <<"f", "i", "e", "l", "d">>)
            /\ UNCHANGED prompt
       ELSE /\ pc' = "chat"
            /\ prompt' = _build_prompt(prompt_template, question, StudentAnswer)
            /\ UNCHANGED raised
    /\ UNCHANGED <<question, prompt_template, max_retries, attempt, events,
                   chat_ret, json_ret, judge_ret>>
    /\ UNCHANGED <<reportVars, runVars>>

\* an attempt that succeeds without returning
ChatAttemptOk_Mut ==
    /\ pc = "chat"
    /\ attempt < max_retries
    /\ \E text \in Responses :
        /\ chat_ret' = Str(text)
        /\ events' = Append(events, CallEvent(TRUE, text))
    /\ attempt' = attempt + 1
    /\ UNCHANGED <<pc, question, prompt_template, max_retries, prompt,
                   json_ret, raised, judge_ret>>
    /\ UNCHANGED <<reportVars, runVars>>
\* ai_client.py:89-92: an attempt whose completion call succeeds returns
ChatAttemptOk ==
    /\ pc = "chat"
    /\ attempt < max_retries
    /\ \E text \in Responses :
        /\ chat_ret' = Str(text)
        /\ events' = Append(events, CallEvent(TRUE, text))
    /\ pc' = "chat_returned"
    /\ UNCHANGED <<question, prompt_template, max_retries, prompt, attempt,
                   json_ret, raised, judge_ret>>
    /\ UNCHANGED <<reportVars, runVars>>

\* ai_client.py:94-100: a failed attempt that is not the last sleeps and
\* the loop goes on
ChatAttemptFailRetry ==
    /\ pc = "chat"
    /\ attempt < max_retries
    /\ ~IsLastAttempt(attempt, max_retries)
    /\ events' = events \o <<CallEvent(FALSE, <<>>),
                             SleepEvent(WaitTime(attempt))>>
    /\ attempt' = attempt + 1
    /\ UNCHANGED <<pc, question, prompt_template, max_retries, prompt,
                   chat_ret, json_ret, raised, judge_ret>>
    /\ UNCHANGED <<reportVars, runVars>>

\* ai_client.py:94-96: the last attempt fails and chat raises
ChatAttemptFailRaise ==
    /\ pc = "chat"
    /\ attempt < max_retries
    /\ IsLastAttempt(attempt, max_retries)
    /\ events' = Append(events, CallEvent(FALSE, <<>>))
    /\ raised' = ChatError
    /\ pc' = "chat_raised"
    /\ UNCHANGED <<question, prompt_template, max_retries, prompt, attempt,
                   chat_ret, json_ret, judge_ret>>
    /\ UNCHANGED <<reportVars, runVars>>

\* ai_client.py:89: the range is exhausted and chat falls off its end,
\* returning None
ChatLoopEnd ==
    /\ pc = "chat"
    /\ attempt >= max_retries
    /\ chat_ret' = Null
    /\ pc' = "chat_returned"
    /\ UNCHANGED <<question, prompt_template, max_retries, prompt, attempt,
                   events, json_ret, raised, judge_ret>>
    /\ UNCHANGED <<reportVars, runVars>>

\* ai_client.py:119-135: chat_json decodes what chat returned; None has no
\* strip, and that AttributeError is not caught in chat_json
ChatJsonDecode ==
    /\ pc = "chat_returned"
    /\ IF chat_ret = Null
       THEN /\ raised' = NoneStripError
            /\ pc' = "chat_json_raised"
            /\ UNCHANGED json_ret
       ELSE /\ json_ret' = chat_json_decode(chat_ret.s)
            /\ pc' = "chat_json_returned"
            /\ UNCHANGED raised
    /\ UNCHANGED <<question, prompt_template, max_retries, prompt, attempt,
                   events, chat_ret, judge_ret>>
    /\ UNCHANGED <<reportVars, runVars>>

\* ai_client.py:119: the error of chat passes through chat_json
ChatJsonPropagate ==
    /\ pc = "chat_raised"
    /\ pc' = "chat_json_raised"
    /\ UNCHANGED <<question, prompt_template, max_retries, prompt, attempt,
                   events, chat_ret, json_ret, raised, judge_ret>>
    /\ UNCHANGED <<reportVars, runVars>>

\* ai_judge.py:52-61: the reply is parsed; a failure there is caught
JudgeParse ==
    /\ pc = "chat_json_returned"
    /\ judge_ret' = JudgeAfterChatJson(json_ret, question)
    /\ pc' = "judge_returned"
    /\ UNCHANGED <<question, prompt_template, max_retries, prompt, attempt,
                   events, chat_ret, json_ret, raised>>
    /\ UNCHANGED <<reportVars, runVars>>

\* an except branch that raises again
JudgeCatch_Mut ==
    /\ pc = "chat_json_raised"
    /\ pc' = "judge_raised"
    /\ UNCHANGED <<question, prompt_template, max_retries, prompt, attempt,
                   events, chat_ret, json_ret, raised, judge_ret>>
    /\ UNCHANGED <<reportVars, runVars>>
\* ai_judge.py:54-61: the error of chat_json is caught
JudgeCatch ==
    /\ pc = "chat_json_raised"
    /\ judge_ret' = JudgeFailure(raised, question)
    /\ pc' = "judge_returned"
    /\ UNCHANGED <<question, prompt_template, max_retries, prompt, attempt,
                   events, chat_ret, json_ret, raised>>
    /\ UNCHANGED <<reportVars, runVars>>

\* a calculator built from any question list (score_calculator.py:12-22)
\* and any list of judge results
InitReport ==
    /\ pc = "report"
    /\ question = Null
    /\ prompt_template = {}
    /\ max_retries = 3
    /\ JudgeIdle
    /\ questions \in ListsOf(Questions \cup ExampleQuestions)
    /\ passing_score \in PassingScores
    /\ judge_results \in ListsOf(ReportResults \cup ExampleResults)
    /\ report = NoReport
    /\ RunIdle

\* score_calculator.py:36-71
GenerateReport ==
    /\ pc = "report"
    /\ report' = generate_report(questions, passing_score, judge_results)
    /\ pc' = "report_returned"
    /\ UNCHANGED <<question, prompt_template, max_retries, prompt, attempt,
                   events, chat_ret, json_ret, raised, judge_ret>>
    /\ UNCHANGED <<questions, passing_score, judge_results>>
    /\ UNCHANGED runVars

NextReport == GenerateReport

SpecReport == InitReport /\ [][NextReport]_vars

\* ------------------------------------------------------------ GradingSystem
\* what the gateway does for one judge call: chat_json raises exc, or chat
\* returned text, after so many completion calls
GatewayOutcome(exc, text, calls) ==
    [exc |-> exc, text |-> text, calls |-> calls]

\* a retry loop that makes one call more before it gives up
chat_json_outcome_Mut(retries, fails, text) ==
    IF retries <= 0 THEN GatewayOutcome(NoneStripError, <<>>, 0)
    ELSE IF fails >= retries THEN GatewayOutcome(ChatError, <<>>, retries + 1)
    ELSE GatewayOutcome(Null, text, fails + 1)
\* ai_client.py:88-100, 119-124: the end of chat_json's call of chat when the
\* first fails completion calls raise and the next one returns text: no call
\* and None, whose strip raises, for retries <= 0; the exhaustion error after
\* retries calls; the text after fails + 1 calls
chat_json_outcome(retries, fails, text) ==
    IF retries <= 0 THEN GatewayOutcome(NoneStripError, <<>>, 0)
    ELSE IF fails >= retries THEN GatewayOutcome(ChatError, <<>>, retries)
    ELSE GatewayOutcome(Null, text, fails + 1)

\* a judge that hands on the reply without _parse_result
judge_Mut(q, outcome) ==
    IF outcome.exc # Null
    THEN JudgeFailure(outcome.exc, q)
    ELSE chat_json_decode(outcome.text)
\* ai_judge.py:47-61 as a function of what the gateway does
judge(q, outcome) ==
    IF outcome.exc # Null
    THEN JudgeFailure(outcome.exc, q)
    ELSE JudgeAfterChatJson(chat_json_decode(outcome.text), q)

\* the endpoint during a run: it answers at once, it answers after one
\* failed call, or it fails on every call
RunGateway ==
    { [fails |-> 0, text |-> Object(Member(K_score, <<"3">>))],
      [fails |-> 1,
       text |-> FENCE_JSON \o <<"\n">> \o Object(Member(K_score, <<"9", "7">>))
                \o <<"\n">> \o FENCE \o <<"\n">>],
      [fails |-> MaxRetries, text |-> <<>>] }
RunOutcomes(retries) ==
    { chat_json_outcome(retries, g.fails, g.text) : g \in RunGateway }

\* the max_retries of the settings during a run
RunRetries == {1, MaxRetries - 1}

\* the question lists of config["questions"]["questions"]
RunQuestions ==
    { QuestionOf(2),
      Dict((K_id :> Num(2)) @@ (K_text :> Str(<<"R">>))
           @@ (K_answer :> Str(<<"B">>)) @@ (K_points :> Num(MaxPoints))) }

\* what ocr.recognize returns: the text fragments in reading order
OcrResults == { <<>>, << <<"a">>, <<"b">> >> }

\* main.py:138: "\n".join of the fragment texts
RECURSIVE Join(_)
Join(fragments) ==
    IF fragments = <<>> THEN <<>>
    ELSE IF Len(fragments) = 1 THEN fragments[1]
    ELSE fragments[1] \o <<"\n">> \o Join(Tail(fragments))

\* one step of an exam attempt
StepEvent(step, ok, q, text, val, float, calls) ==
    [step |-> step, ok |-> ok, q |-> q, text |-> text, val |-> val,
     float |-> float, calls |-> calls]

\* ai_judge.py:104-110: the score of a judgment is a float when float(score)
\* survives max(0, min(score, max_points)), which gives back the integer
\* max_points for a score above it and the integer 0 for a score that is
\* not above 0; the score of a failure (ai_judge.py:58) is the integer 0
ScoreIsFloat(q, outcome) ==
    IF outcome.exc # Null THEN FALSE
    ELSE LET result == chat_json_decode(outcome.text)
         IN  IF IsExc(JudgeTryParse(result, q)) THEN FALSE
             ELSE LET score == Get(result.m, K_score, Num(0))
                  IN  /\ ~FloatRaises(score)
                      /\ FloatOf(score) > 0
                      /\ FloatOf(score) <= q.m[K_points].n

\* score_calculator.py:34: a sum that starts from the integer 0 is a float
\* as soon as one of the scores is
TotalIsFloat(log) ==
    \E i \in 1..Len(log) : log[i].step = "judge_return" /\ log[i].float

DigitChar(d) ==
    CASE d = 0 -> "0" [] d = 1 -> "1" [] d = 2 -> "2" [] d = 3 -> "3"
      [] d = 4 -> "4" [] d = 5 -> "5" [] d = 6 -> "6" [] d = 7 -> "7"
      [] d = 8 -> "8" [] d = 9 -> "9"
RECURSIVE Decimal(_)
Decimal(n) ==
    IF n < 10 THEN <<DigitChar(n)>>
    ELSE Decimal(n \div 10) \o <<DigitChar(n % 10)>>
\* form_filler.py:42: str(value) of a total that is not negative: the
\* digits of an integer, and the same digits with ".0" for a whole float
str(n, float) == Decimal(n) \o (IF float THEN <<".", "0">> ELSE <<>>)

\* a loop test that lets one exam too many through
LoopCondition_Mut(limit, count) ==
    IF limit = Null THEN TRUE ELSE count <= limit.n
\* main.py:186: the test of the run loop; max_exams is None or a number
LoopCondition(limit, count) ==
    IF limit = Null THEN TRUE ELSE count < limit.n

\* a step whose error is swallowed
AfterStep_Mut(ok, next) == next
\* main.py:120-175: a step that raises leaves the try body for the except
\* branch, which returns False
AfterStep(ok, next) == IF ok THEN next ELSE "exam_returned"

\* GradingSystem.run(max_exams) on a started system; None stands for the
\* default of main.py:228
InitRun ==
    /\ pc = "loop_test"
    /\ question = Null
    /\ prompt_template \in Templates
    /\ max_retries \in RunRetries
    /\ JudgeIdle
    /\ questions \in ListsOf(RunQuestions)
    /\ passing_score = 60
    /\ judge_results = <<>>
    /\ report = NoReport
    /\ max_exams \in {Num(m) : m \in 0..MaxExams} \cup {Null}
    /\ processed = 0
    /\ started = 0
    /\ success = FALSE
    /\ exam_log = <<>>
    /\ recognized_text = <<>>
    /\ q_index = 0
    /\ in_flight = 0
    /\ field_value = Null
    /\ page = 0

judgeIdleVars == <<question, prompt_template, max_retries, prompt, attempt,
                   events, chat_ret, json_ret, raised, judge_ret>>

\* main.py:186-191: the loop test passes and process_exam is called; a run
\* without limit is followed for MaxExams + 1 attempts
RunStartExam ==
    /\ pc = "loop_test"
    /\ LoopCondition(max_exams, processed)
    /\ max_exams = Null => started <= MaxExams
    /\ started' = started + 1
    /\ exam_log' = <<>>
    /\ pc' = "wait"
    /\ UNCHANGED judgeIdleVars
    /\ UNCHANGED reportVars
    /\ UNCHANGED <<max_exams, processed, success, recognized_text, q_index,
                   in_flight, field_value, page>>

\* main.py:186, 204: the loop test fails and run returns
RunFinish ==
    /\ pc = "loop_test"
    /\ ~LoopCondition(max_exams, processed)
    /\ pc' = "done"
    /\ UNCHANGED judgeIdleVars
    /\ UNCHANGED reportVars
    /\ UNCHANGED runVars

\* a wait whose timeout is logged and ignored
ExamWait_Mut ==
    /\ pc = "wait"
    /\ \E ok \in BOOLEAN :
        /\ exam_log' =
              Append(exam_log, StepEvent("wait", ok, 0, <<>>, 0, FALSE, 0))
        /\ pc' = "capture"
    /\ success' = FALSE
    /\ UNCHANGED judgeIdleVars
    /\ UNCHANGED reportVars
    /\ UNCHANGED <<max_exams, processed, started, recognized_text, q_index,
                   in_flight, field_value, page>>
\* main.py:126: wait_for_element returns, or raises on its timeout
ExamWait ==
    /\ pc = "wait"
    /\ \E ok \in BOOLEAN :
        /\ exam_log' = Append(exam_log,
              StepEvent("wait", ok, 0, <<>>, 0, FALSE, 0))
        /\ pc' = AfterStep(ok, "capture")
    /\ success' = FALSE
    /\ UNCHANGED judgeIdleVars
    /\ UNCHANGED reportVars
    /\ UNCHANGED <<max_exams, processed, started, recognized_text, q_index,
                   in_flight, field_value, page>>

\* main.py:130: capture_element returns the image, or raises
ExamCapture ==
    /\ pc = "capture"
    /\ \E ok \in BOOLEAN :
        /\ exam_log' = Append(exam_log,
              StepEvent("capture", ok, 0, <<>>, 0, FALSE, 0))
        /\ pc' = AfterStep(ok, "recognize")
    /\ UNCHANGED judgeIdleVars
    /\ UNCHANGED reportVars
    /\ UNCHANGED <<max_exams, processed, started, success, recognized_text,
                   q_index, in_flight, field_value, page>>

\* a judging loop that keeps the results of the exam before
ExamRecognize_Mut ==
    /\ pc = "recognize"
    /\ \/ /\ exam_log' =
                Append(exam_log,
                      StepEvent("recognize", FALSE, 0, <<>>, 0, FALSE, 0))
          /\ pc' = AfterStep(FALSE, "judge")
          /\ UNCHANGED <<recognized_text, judge_results, q_index>>
       \/ \E fragments \in OcrResults :
            /\ recognized_text' = Join(fragments)
            /\ exam_log' = Append(exam_log,
                  StepEvent("recognize", TRUE, 0, Join(fragments), 0, FALSE, 0))
            /\ UNCHANGED judge_results
            /\ q_index' = 1
            /\ pc' = AfterStep(TRUE, "judge")
    /\ UNCHANGED judgeIdleVars
    /\ UNCHANGED <<questions, passing_score, report>>
    /\ UNCHANGED <<max_exams, processed, started, success, in_flight,
                   field_value, page>>
\* main.py:134-145: the image is opened and recognized (either may raise),
\* the fragment texts are joined and the judging loop starts on an empty
\* result list
ExamRecognize ==
    /\ pc = "recognize"
    /\ \/ /\ exam_log' =
                Append(exam_log,
                      StepEvent("recognize", FALSE, 0, <<>>, 0, FALSE, 0))
          /\ pc' = AfterStep(FALSE, "judge")
          /\ UNCHANGED <<recognized_text, judge_results, q_index>>
       \/ \E fragments \in OcrResults :
            /\ recognized_text' = Join(fragments)
            /\ exam_log' = Append(exam_log,
                  StepEvent("recognize", TRUE, 0, Join(fragments), 0, FALSE, 0))
            /\ judge_results' = <<>>
            /\ q_index' = 1
            /\ pc' = AfterStep(TRUE, "judge")
    /\ UNCHANGED judgeIdleVars
    /\ UNCHANGED <<questions, passing_score, report>>
    /\ UNCHANGED <<max_exams, processed, started, success, in_flight,
                   field_value, page>>

\* a judge call issued while another one has not returned
ExamJudgeCall_Mut ==
    /\ pc \in {"judge", "judging"}
    /\ q_index + in_flight <= Len(questions)
    /\ in_flight' = in_flight + 1
    /\ exam_log' = Append(exam_log,
          StepEvent("judge_call", TRUE, q_index + in_flight,
                    recognized_text, 0, FALSE, 0))
    /\ pc' = "judging"
    /\ UNCHANGED judgeIdleVars
    /\ UNCHANGED reportVars
    /\ UNCHANGED <<max_exams, processed, started, success, recognized_text,
                   q_index, field_value, page>>
\* main.py:146-147: the loop takes the next question and calls judge with
\* it and the recognized text
ExamJudgeCall ==
    /\ pc = "judge"
    /\ q_index <= Len(questions)
    /\ in_flight' = in_flight + 1
    /\ exam_log' = Append(exam_log,
          StepEvent("judge_call", TRUE, q_index, recognized_text, 0, FALSE, 0))
    /\ pc' = "judging"
    /\ UNCHANGED judgeIdleVars
    /\ UNCHANGED reportVars
    /\ UNCHANGED <<max_exams, processed, started, success, recognized_text,
                   q_index, field_value, page>>

\* a judging loop that leaves out the result of a failed judgment
ExamJudgeReturn_Mut ==
    /\ pc = "judging"
    /\ in_flight' = in_flight - 1
    /\ IF BuildPromptRaises(prompt_template)
       THEN /\ exam_log' = Append(exam_log,
                  StepEvent("judge_return", FALSE, q_index, <<>>, 0, FALSE, 0))
            /\ pc' = AfterStep(FALSE, "judge")
            /\ UNCHANGED <<judge_results, q_index>>
       ELSE \E outcome \in RunOutcomes(max_retries) :
              LET result == judge(questions[q_index], outcome)
              IN  /\ judge_results' =
                        IF outcome.exc # Null THEN judge_results
                        ELSE Append(judge_results, result)
                  /\ exam_log' = Append(exam_log,
                        StepEvent("judge_return", TRUE, q_index, <<>>,
                                  result.m[K_score].n,
                                  ScoreIsFloat(questions[q_index], outcome),
                                  outcome.calls))
                  /\ q_index' = q_index + 1
                  /\ pc' = AfterStep(TRUE, "judge")
    /\ UNCHANGED judgeIdleVars
    /\ UNCHANGED <<questions, passing_score, report>>
    /\ UNCHANGED <<max_exams, processed, started, success, recognized_text,
                   field_value, page>>
\* main.py:147-148: judge returns and its result is appended, or judge
\* raises out of _build_prompt (ai_judge.py:45)
ExamJudgeReturn ==
    /\ pc = "judging"
    /\ in_flight' = in_flight - 1
    /\ IF BuildPromptRaises(prompt_template)
       THEN /\ exam_log' = Append(exam_log,
                  StepEvent("judge_return", FALSE, q_index, <<>>, 0, FALSE, 0))
            /\ pc' = AfterStep(FALSE, "judge")
            /\ UNCHANGED <<judge_results, q_index>>
       ELSE \E outcome \in RunOutcomes(max_retries) :
              LET result == judge(questions[q_index], outcome)
              IN  /\ judge_results' = Append(judge_results, result)
                  /\ exam_log' = Append(exam_log,
                        StepEvent("judge_return", TRUE, q_index, <<>>,
                                  result.m[K_score].n,
                                  ScoreIsFloat(questions[q_index], outcome),
                                  outcome.calls))
                  /\ q_index' = q_index + 1
                  /\ pc' = AfterStep(TRUE, "judge")
    /\ UNCHANGED judgeIdleVars
    /\ UNCHANGED <<questions, passing_score, report>>
    /\ UNCHANGED <<max_exams, processed, started, success, recognized_text,
                   field_value, page>>

\* a report generated from inside the judging loop
ExamAggregate_Mut ==
    /\ pc = "judge"
    /\ report' = generate_report(questions, passing_score, judge_results)
    /\ exam_log' = Append(exam_log, StepEvent("aggregate", TRUE, 0, <<>>,
          generate_report(questions, passing_score, judge_results).total_score,
          TotalIsFloat(exam_log), 0))
    /\ pc' = "fill"
    /\ UNCHANGED judgeIdleVars
    /\ UNCHANGED <<questions, passing_score, judge_results>>
    /\ UNCHANGED <<max_exams, processed, started, success, recognized_text,
                   q_index, in_flight, field_value, page>>
\* main.py:152-153: the loop is over and the report is generated
ExamAggregate ==
    /\ pc = "judge"
    /\ q_index > Len(questions)
    /\ report' = generate_report(questions, passing_score, judge_results)
    /\ exam_log' = Append(exam_log, StepEvent("aggregate", TRUE, 0, <<>>,
          generate_report(questions, passing_score, judge_results).total_score,
          TotalIsFloat(exam_log), 0))
    /\ pc' = "fill"
    /\ UNCHANGED judgeIdleVars
    /\ UNCHANGED <<questions, passing_score, judge_results>>
    /\ UNCHANGED <<max_exams, processed, started, success, recognized_text,
                   q_index, in_flight, field_value, page>>

\* main.py:162: fill_input writes total_score into the score input, or
\* raises
ExamFill ==
    /\ pc = "fill"
    /\ \E ok \in BOOLEAN :
        /\ exam_log' = Append(exam_log,
              StepEvent("fill", ok, 0, <<>>, report.total_score,
                        TotalIsFloat(exam_log), 0))
        /\ field_value' =
              IF ok THEN Str(str(report.total_score, TotalIsFloat(exam_log)))
              ELSE field_value
        /\ pc' = AfterStep(ok, "settle")
    /\ UNCHANGED judgeIdleVars
    /\ UNCHANGED reportVars
    /\ UNCHANGED <<max_exams, processed, started, success, recognized_text,
                   q_index, in_flight, page>>

\* main.py:163: the settle delay
ExamSettle ==
    /\ pc = "settle"
    /\ exam_log' = Append(exam_log,
          StepEvent("settle", TRUE, 0, <<>>, 0, FALSE, 0))
    /\ pc' = "click"
    /\ UNCHANGED judgeIdleVars
    /\ UNCHANGED reportVars
    /\ UNCHANGED <<max_exams, processed, started, success, recognized_text,
                   q_index, in_flight, field_value, page>>

\* main.py:168-171: click_button clicks 'next' and process_exam returns
\* True, or it raises
ExamClick ==
    /\ pc = "click"
    /\ \E ok \in BOOLEAN :
        /\ exam_log' = Append(exam_log,
              StepEvent("click", ok, 0, <<>>, 0, FALSE, 0))
        /\ page' = IF ok THEN page + 1 ELSE page
        /\ success' = ok
        /\ pc' = AfterStep(ok, "exam_returned")
    /\ UNCHANGED judgeIdleVars
    /\ UNCHANGED reportVars
    /\ UNCHANGED <<max_exams, processed, started, recognized_text, q_index,
                   in_flight, field_value>>

\* a run that goes on to the next exam after a failure
RunAfterExam_Mut ==
    /\ pc = "exam_returned"
    /\ processed' = IF success THEN processed + 1 ELSE processed
    /\ pc' = "loop_test"
    /\ UNCHANGED judgeIdleVars
    /\ UNCHANGED reportVars
    /\ UNCHANGED <<max_exams, started, success, exam_log, recognized_text,
                   q_index, in_flight, field_value, page>>
\* main.py:193-204: after a success the counter is incremented and, two
\* seconds later, the loop test runs again; after a failure the loop is
\* left and run returns
RunAfterExam ==
    /\ pc = "exam_returned"
    /\ IF success
       THEN /\ processed' = processed + 1
            /\ pc' = "loop_test"
       ELSE /\ UNCHANGED processed
            /\ pc' = "done"
    /\ UNCHANGED judgeIdleVars
    /\ UNCHANGED reportVars
    /\ UNCHANGED <<max_exams, started, success, exam_log, recognized_text,
                   q_index, in_flight, field_value, page>>

NextRun ==
    \/ RunStartExam
    \/ RunFinish
    \/ ExamWait
    \/ ExamCapture
    \/ ExamRecognize
    \/ ExamJudgeCall
    \/ ExamJudgeReturn
    \/ ExamAggregate
    \/ ExamFill
    \/ ExamSettle
    \/ ExamClick
    \/ RunAfterExam

SpecRun == InitRun /\ [][NextRun]_vars

\* every step of run and process_exam is a bounded wait or a call that
\* returns or raises (browser_controller.py:79-96 has a timeout,
\* ai_client.py:68-94 a bounded retry loop), so a run keeps taking steps
SpecRunFair == SpecRun /\ WF_vars(NextRun)

\* --------------------------------------------------- GradingSystem.__init__
\* a question of questions.yaml that has no 'points'
QuestionWithoutPoints ==
    Dict((K_id :> Num(3)) @@ (K_text :> Str(<<"S">>))
         @@ (K_answer :> Str(<<"C">>)))

\* the questions of a configuration file: those of RunQuestions, a question
\* without 'points' and an empty list item, which yaml loads as None
ConfigQuestions == RunQuestions \cup {QuestionWithoutPoints, Null}

\* main.py:62-66 and score_calculator.py:20-22: the sum over
\* q.get("points", 0) raises AttributeError for a question that is no
\* mapping; nothing else of a question is looked at
InitRaises(qs) == \E i \in 1..Len(qs) : qs[i].t # "dict"

\* main() on a loaded configuration: GradingSystem(config) is still to be
\* constructed
InitStartup ==
    /\ pc = "startup"
    /\ question = Null
    /\ prompt_template \in Templates
    /\ max_retries = 3
    /\ JudgeIdle
    /\ questions \in ListsOf(ConfigQuestions)
    /\ passing_score = 60
    /\ judge_results = <<>>
    /\ report = NoReport
    /\ max_exams \in {Num(m) : m \in 1..MaxExams}
    /\ processed = 0
    /\ started = 0
    /\ success = FALSE
    /\ exam_log = <<>>
    /\ recognized_text = <<>>
    /\ q_index = 0
    /\ in_flight = 0
    /\ field_value = Null
    /\ page = 0

\* main.py:40-71, 219-225: the constructor raises and main ends, or the
\* system is built and started and run is entered
SystemInit ==
    /\ pc = "startup"
    /\ pc' = IF InitRaises(questions) THEN "startup_failed" ELSE "loop_test"
    /\ UNCHANGED judgeIdleVars
    /\ UNCHANGED reportVars
    /\ UNCHANGED runVars

NextStartup ==
    \/ SystemInit
    \/ NextRun

SpecStartup == InitStartup /\ [][NextStartup]_vars

Next ==
    \/ JudgeBuildPrompt
    \/ ChatAttemptOk
    \/ ChatAttemptFailRetry
    \/ ChatAttemptFailRaise
    \/ ChatLoopEnd
    \/ ChatJsonDecode
    \/ ChatJsonPropagate
    \/ JudgeParse
    \/ JudgeCatch

Spec == Init /\ [][Next]_vars

\* ------------------------------------------------------------------- claims
Calls == {k \in 1..Len(events) : events[k].ev = "call"}
Sleeps == {k \in 1..Len(events) : events[k].ev = "sleep"}
FailedCalls == {k \in Calls : ~events[k].ok}
\* 0-based index of the attempt whose call is event k
AttemptIndex(k) == Cardinality({j \in Calls : j < k})
RECURSIVE SumSecs(_)
SumSecs(evs) == IF evs = <<>> THEN 0 ELSE Head(evs).secs + SumSecs(Tail(evs))
ChatEnded == pc \in {"chat_returned", "chat_raised"}
JudgeScore == judge_ret.m[K_score].n
JudgeComment == judge_ret.m[K_comment]
NonEmptyComment == JudgeComment.t = "str" /\ Len(JudgeComment.s) > 0

\* C1: judge never propagates an exception, whatever the question, the
\* prompt template and the gateway do.
C1_JudgeNeverRaises == pc # "judge_raised"

\* C2: with max_retries = N >= 1 and every completion call failing, chat
\* makes exactly N attempts and then raises; it never makes more than N.
C2_ExactlyNAttemptsThenRaise ==
    max_retries >= 1 =>
        /\ Cardinality(Calls) <= max_retries
        /\ (ChatEnded /\ FailedCalls = Calls) =>
              /\ pc = "chat_raised"
              /\ raised = ChatError
              /\ Cardinality(Calls) = max_retries
C2_Witness ==
    /\ pc = "chat_raised"
    /\ max_retries = 3
    /\ Cardinality(FailedCalls) = 3

C4_NoRetryOnSuccess ==
    \A k \in Calls :
        events[k].ok =>
            /\ k = Len(events)
            /\ pc \notin {"chat", "chat_raised", "chat_json_raised"}
            /\ chat_ret = Str(events[k].text)
            /\ AttemptIndex(k) = attempt
            /\ Cardinality(Calls) = attempt + 1
            /\ attempt < max_retries
C4_Witness ==
    /\ pc = "chat_returned"
    /\ attempt = 2
    /\ Len(events) = 5
    /\ events[5].ok

\* C5: chat_json returns a mapping for every response text.
C5_ChatJsonReturnsMapping ==
    pc = "chat_json_returned" => json_ret.t = "dict"

\* C6: a response that is not JSON after fence stripping makes chat_json
\* return the sentinel holding the response as received, and chat_json
\* raises for no response text.
C6_RawSentinelKeepsOriginal ==
    /\ (pc = "chat_json_returned"
        /\ IsError(json_loads(strip(StripFences(chat_ret.s))))) =>
            /\ json_ret.t = "dict"
            /\ DOMAIN json_ret.m = {K_raw}
            /\ json_ret.m[K_raw] = chat_ret
    /\ pc = "chat_json_raised" => chat_ret = Null
C6_Witness ==
    /\ pc = "chat_json_returned"
    /\ json_ret.t = "dict"
    /\ K_raw \in DOMAIN json_ret.m
    /\ json_ret.m[K_raw] = chat_ret
    /\ strip(chat_ret.s) # chat_ret.s
    /\ StripFences(chat_ret.s) # strip(chat_ret.s)

\* C7: a reply that is not JSON (the raw sentinel) or a mapping without
\* 'score' gives a judge result with score 0 and a non-empty comment.
C7_MalformedReplyExplained ==
    (pc = "judge_returned" /\ json_ret.t = "dict"
     /\ K_score \notin DOMAIN json_ret.m) =>
        /\ JudgeScore = 0
        /\ NonEmptyComment

\* C8: when chat_json raises, judge returns a result with score 0 and a
\* non-empty comment; judge raises only before the gateway is called.
C8_GatewayErrorAbsorbed ==
    /\ (pc = "judge_returned" /\ raised # Null) =>
          /\ JudgeScore = 0
          /\ NonEmptyComment
    /\ pc = "judge_raised" => prompt = Null
C8_Witness ==
    /\ pc = "judge_returned"
    /\ raised = ChatError
    /\ JudgeScore = 0
    /\ NonEmptyComment

\* C9: for a question with points > 0 the returned score lies in
\* [0, points]; a reply score that is no number counts as 0, and a reply
\* score already in the range is returned as it is.
ReplyScore == json_ret.m[K_score]
C9_ScoreClamped ==
    (pc = "judge_returned" /\ K_points \in DOMAIN question.m
     /\ question.m[K_points].n > 0) =>
        LET points == question.m[K_points].n
        IN  /\ 0 <= JudgeScore /\ JudgeScore <= points
            /\ (json_ret.t = "dict" /\ K_score \in DOMAIN json_ret.m) =>
                  /\ (ReplyScore.t = "num" /\ 0 <= ReplyScore.n
                      /\ ReplyScore.n <= points) => JudgeScore = ReplyScore.n
                  /\ ReplyScore.t = "num" /\ ReplyScore.n < 0 => JudgeScore = 0
                  /\ ReplyScore.t = "num" /\ ReplyScore.n > points =>
                        JudgeScore = points
                  /\ ReplyScore.t = "null" => JudgeScore = 0
C9_Witness ==
    /\ pc = "judge_returned"
    /\ K_points \in DOMAIN question.m
    /\ question.m[K_points].n = 2
    /\ json_ret.t = "dict"
    /\ K_score \in DOMAIN json_ret.m
    /\ ReplyScore = Num(97)
    /\ JudgeScore = 2

\* C10: in every report total_score is the sum of the score fields of its
\* details, also when the result list and the question list differ in
\* length.
RECURSIVE SumDetailScores(_)
SumDetailScores(details) ==
    IF details = <<>> THEN 0
    ELSE Head(details).score + SumDetailScores(Tail(details))
C10_TotalIsSumOfDetails ==
    pc = "report_returned" =>
        report.total_score = SumDetailScores(report.details)

\* C11: details has min(len(questions), len(judge_results)) entries, and
\* entry i carries the id, text and points of questions[i] and the score
\* and comment of judge_results[i].
C11_PositionalTruncation ==
    pc = "report_returned" =>
        /\ Len(report.details) = Min(Len(questions), Len(judge_results))
        /\ \A i \in 1..Len(report.details) :
              LET d == report.details[i]
                  q == questions[i].m
                  r == judge_results[i].m
              IN  /\ K_id \in DOMAIN q => d.question_id = q[K_id]
                  /\ K_id \notin DOMAIN q => d.question_id = Num(i)
                  /\ K_text \in DOMAIN q => d.question = q[K_text]
                  /\ K_points \in DOMAIN q => d.max_points = q[K_points].n
                  /\ K_score \in DOMAIN r => d.score = r[K_score].n
                  /\ K_comment \in DOMAIN r => d.comment = r[K_comment]
C11_Witness ==
    /\ pc = "report_returned"
    /\ Len(questions) = 2
    /\ Len(judge_results) = 1
    /\ Len(report.details) = 1
    /\ report.details[1].max_points = 20
    /\ report.details[1].score = 15

\* C12: percentage is total_score / max_score * 100 rounded to two
\* decimals when max_score > 0 and 0 when max_score = 0; scores 8 and 15
\* for points 10 and 20 give total 23, max 30 and 76.67 percent.
Abs(x) == IF x < 0 THEN 0 - x ELSE x
PointsOf(qs) == [i \in 1..Len(qs) |-> Get(qs[i].m, K_points, Num(0)).n]
ScoresOf(rs) == [i \in 1..Len(rs) |-> Get(rs[i].m, K_score, Num(0)).n]
C12_Percentage ==
    pc = "report_returned" =>
        /\ report.max_score > 0 =>
              2 * Abs(report.percentage_x100 * report.max_score
                      - report.total_score * 10000) <= report.max_score
        /\ report.max_score = 0 => report.percentage_x100 = 0
        /\ questions = <<>> => report.max_score = 0
        /\ (PointsOf(questions) = <<10, 20>>
            /\ ScoresOf(judge_results) = <<8, 15>>) =>
              /\ report.total_score = 23
              /\ report.max_score = 30
              /\ report.percentage_x100 = 7667
C12_Witness ==
    /\ pc = "report_returned"
    /\ PointsOf(questions) = <<10, 20>>
    /\ ScoresOf(judge_results) = <<8, 15>>
    /\ report.percentage_x100 = 7667
C12_WitnessZero ==
    /\ pc = "report_returned"
    /\ questions = <<>>
    /\ report.total_score > 0
    /\ report.percentage_x100 = 0

\* the number of the limit of a run with a limit
LimitOf(limit) == IF limit = Null THEN 0 ELSE limit.n

\* C13: once process_exam has returned False, run starts no further attempt,
\* leaves the processed counter as it is and returns; after run has
\* returned nothing is started or counted
C13_FailureIsTerminal ==
    [][ /\ (pc = "exam_returned" /\ ~success) =>
            (pc' = "done" /\ processed' = processed /\ started' = started)
        /\ pc = "done" =>
            (processed' = processed /\ started' = started) ]_vars

\* a run of two attempts whose second attempt failed
C13_Witness ==
    /\ pc = "done"
    /\ ~success
    /\ started = 2
    /\ processed = 1
    /\ LimitOf(max_exams) = 2

\* the counters of a run with the limit M: at most M attempts started and
\* counted, none with M = 0, returned only after M successes or after a
\* failure, and nothing but the return left once M attempts have succeeded
BoundedAttempts ==
    max_exams # Null =>
        /\ started <= LimitOf(max_exams)
        /\ processed <= LimitOf(max_exams)
        /\ processed <= started
        /\ LimitOf(max_exams) = 0 => started = 0
        /\ pc = "done" =>
              \/ processed = LimitOf(max_exams)
              \/ started = processed + 1 /\ ~success
        /\ processed = LimitOf(max_exams) => pc \in {"loop_test", "done"}

\* C14: run(max_exams = M) with an integer M >= 0 starts at most M attempts
\* and counts at most M of them; with M = 0 it starts none; the loop ends,
\* and it ends as soon as M attempts have succeeded or one has failed
C14_BoundedAttempts ==
    /\ []BoundedAttempts
    /\ [](max_exams # Null => <>(pc = "done"))

\* a run that returned after all of its two attempts succeeded
C14_Witness ==
    /\ pc = "done"
    /\ max_exams # Null
    /\ LimitOf(max_exams) = 2
    /\ processed = 2
    /\ started = 2

\* the place of a step in the order of main.py:120-171
StepRank(step) ==
    CASE step = "wait" -> 1
      [] step = "capture" -> 2
      [] step = "recognize" -> 3
      [] step = "judge_call" -> 4
      [] step = "judge_return" -> 4
      [] step = "aggregate" -> 5
      [] step = "fill" -> 6
      [] step = "settle" -> 7
      [] step = "click" -> 8

\* the events of one kind in the log of the attempt
EventsOf(step) == SelectSeq(exam_log, LAMBDA e : e.step = step)

\* C15: the steps of one attempt come in the order wait, capture, recognize,
\* judge each question, aggregate, fill, click: the first step is the wait,
\* each step follows the completed step before it in the order (the judging
\* of the questions in between), the report and the fill come only after
\* every question was judged, and the click only after the fill
C15_StepOrder ==
    /\ exam_log # <<>> => exam_log[1].step = "wait"
    /\ \A i \in 2..Len(exam_log) :
          LET before == exam_log[i - 1]
              here == exam_log[i]
          IN  /\ before.ok
              /\ \/ StepRank(here.step) = StepRank(before.step) + 1
                 \/ /\ before.step = "judge_call"
                    /\ here.step = "judge_return"
                 \/ /\ before.step = "judge_return"
                    /\ here.step = "judge_call"
                 \/ /\ before.step = "recognize"
                    /\ here.step = "aggregate"
                    /\ questions = <<>>
              /\ here.step \in {"aggregate", "fill"} =>
                    /\ Len(EventsOf("judge_return")) = Len(questions)
                    /\ \A k \in 1..Len(questions) :
                          /\ EventsOf("judge_return")[k].ok
                          /\ EventsOf("judge_return")[k].q = k
              /\ here.step = "click" =>
                    \E j \in 1..(i - 1) :
                        exam_log[j].step = "fill" /\ exam_log[j].ok

\* an attempt on two questions that went through all of its steps
C15_Witness ==
    /\ pc = "exam_returned"
    /\ success
    /\ Len(questions) = 2
    /\ Len(exam_log) = 11
    /\ exam_log[Len(exam_log)].step = "click"

\* C16: the questions are judged one at a time in list order, each against
\* the same full recognized text: the k-th judge call of an attempt is for
\* question k and carries the recognized text, it is issued only when the
\* calls before it have returned, and at most one call is in flight
C16_OneJudgeCallAtATime ==
    /\ in_flight \in {0, 1}
    /\ in_flight = 1 <=> pc = "judging"
    /\ \A k \in 1..Len(EventsOf("judge_call")) :
          /\ k <= Len(questions)
          /\ EventsOf("judge_call")[k].q = k
          /\ EventsOf("judge_call")[k].text = recognized_text
    /\ Len(EventsOf("judge_call")) =
          Len(EventsOf("judge_return")) + in_flight
    /\ \A k \in 1..Len(EventsOf("judge_return")) :
          EventsOf("judge_return")[k].q = k

\* the call for the second question in flight, on a page with text
C16_Witness ==
    /\ pc = "judging"
    /\ in_flight = 1
    /\ q_index = 2
    /\ recognized_text = <<"a", "\n", "b">>
    /\ Len(judge_results) = 1

\* the attempt has a step that raised
StepFailed == exam_log # <<>> /\ ~exam_log[Len(exam_log)].ok

\* C17: an error raised in any step of an attempt (wait, capture,
\* recognition, judging, fill, click) ends the attempt with process_exam
\* returning False: nothing escapes process_exam and no later step runs
C17_ErrorsCaughtAtBoundary ==
    /\ raised = Null
    /\ StepFailed => /\ pc \in {"exam_returned", "done"}
                     /\ ~success
    /\ \A i \in 1..Len(exam_log) : ~exam_log[i].ok => i = Len(exam_log)

\* an attempt that returned False because the click raised
C17_Witness ==
    /\ pc = "exam_returned"
    /\ ~success
    /\ StepFailed
    /\ exam_log[Len(exam_log)].step = "click"

\* C18: when the wait for the exam image times out the attempt fails and
\* nothing else happens in it: no capture, no recognition, no judge call, no
\* fill and no click, and the field and the page stay as they were
C18_WaitTimeoutStopsAttempt ==
    /\ []((exam_log # <<>> /\ ~exam_log[1].ok) =>
            /\ Len(exam_log) = 1
            /\ exam_log[1].step = "wait"
            /\ pc \in {"exam_returned", "done"}
            /\ ~success
            /\ in_flight = 0)
    /\ [][ (pc = "wait" /\ pc' = "exam_returned") =>
              /\ field_value' = field_value
              /\ page' = page
              /\ judge_results' = judge_results
              /\ report' = report
              /\ recognized_text' = recognized_text ]_vars

\* a second attempt that failed on the wait after a first one succeeded
C18_Witness ==
    /\ pc = "exam_returned"
    /\ ~success
    /\ started = 2
    /\ processed = 1
    /\ Len(exam_log) = 1
    /\ ~exam_log[1].ok
    /\ page = 1

RECURSIVE SumVals(_)
SumVals(log) ==
    IF log = <<>> THEN 0 ELSE log[1].val + SumVals(Tail(log))

\* the number that a text of digits, with or without ".0", stands for
NumberShown(s) ==
    IF Len(s) > 2 /\ s[Len(s) - 1] = "." /\ s[Len(s)] = "0"
    THEN DigitsVal(DropRight(s, 2))
    ELSE DigitsVal(s)

\* the fill of the attempt has been done
Filled == \E i \in 1..Len(exam_log) :
              exam_log[i].step = "fill" /\ exam_log[i].ok

\* C19: the value written to the score field is the total_score of the
\* report of this attempt, which is the sum of the scores of the judgments
\* returned in this attempt, and the click comes after the fill and the
\* settle delay
C19_FilledValueIsAttemptTotal ==
    /\ Filled =>
          /\ field_value.t = "str"
          /\ NumberShown(field_value.s) = report.total_score
          /\ report.total_score = SumVals(EventsOf("judge_return"))
          /\ Len(judge_results) = Len(EventsOf("judge_return"))
    /\ \A i \in 1..Len(exam_log) :
          exam_log[i].step = "click" =>
              /\ i > 2
              /\ exam_log[i - 1].step = "settle"
              /\ exam_log[i - 2].step = "fill"
              /\ exam_log[i - 2].ok

\* a second exam filled with its own total after a first exam with another
C19_Witness ==
    /\ Filled
    /\ started = 2
    /\ processed = 1
    /\ pc = "exam_returned"
    /\ success
    /\ Len(questions) = 2
    /\ field_value = Str(<<"3", ".", "0">>)
    /\ report.total_score = 3

\* ai_client.py:124-128: the text after the two tests for a leading marker
AfterLeadingFences(response_text) ==
    LET t0 == strip(response_text)
        t1 == IF startswith(t0, FENCE_JSON) THEN DropLeft(t0, 7) ELSE t0
    IN  IF startswith(t1, FENCE) THEN DropLeft(t1, 3) ELSE t1

\* the number of characters that fence stripping takes from the front and
\* from the end of the whitespace-stripped response
LeadingRemoved(response_text) ==
    Len(strip(response_text)) - Len(AfterLeadingFences(response_text))
TrailingRemoved(response_text) ==
    Len(AfterLeadingFences(response_text)) - Len(StripFences(response_text))

\* C20: fence stripping removes at most one leading marker, the json fence
\* or the plain fence, and at most one trailing plain fence from the
\* whitespace-stripped response; it never removes two leading markers
C20_AtMostOneLeadingFence ==
    pc = "chat_json_returned" =>
        /\ LeadingRemoved(chat_ret.s) \in {0, Len(FENCE), Len(FENCE_JSON)}
        /\ TrailingRemoved(chat_ret.s) \in {0, Len(FENCE)}

\* the text holds a fence marker somewhere
HasFence(s) ==
    \E i \in 1..(Len(s) - 2) : SubSeq(s, i, i + 2) = FENCE

\* the ways a body is wrapped in a json fence
JsonFenced(body) ==
    { FENCE_JSON \o <<"\n">> \o body \o suf : suf \in ReplySuffixes \ {<<>>} }

\* C21: on a response without fence markers the fence stripping changes
\* nothing of the whitespace-stripped text, and a JSON object wrapped in a
\* json fence is decoded to the mapping that the bare object decodes to
C21_FenceNoOpAndRoundTrip ==
    pc = "chat_json_returned" =>
        /\ ~HasFence(chat_ret.s) =>
              /\ StripFences(chat_ret.s) = strip(chat_ret.s)
              /\ json_ret = chat_json_decode(strip(chat_ret.s))
                 \/ json_ret = RawSentinel(chat_ret.s)
        /\ \A body \in ReplyBodies :
              (json_loads(body).t = "dict" /\ chat_ret.s \in JsonFenced(body))
                  => /\ json_ret = json_loads(body)
                     /\ json_ret = chat_json_decode(body)

\* a fenced object with a score and a comment was decoded
C21_Witness ==
    /\ pc = "chat_json_returned"
    /\ chat_ret # Null
    /\ HasFence(chat_ret.s)
    /\ startswith(chat_ret.s, FENCE_JSON)
    /\ json_ret = Dict((K_score :> Num(2))
                       @@ (K_comment :> Str(<<"o", "k">>)))

\* a response without fence markers and with outer whitespace was decoded
C21_WitnessBare ==
    /\ pc = "chat_json_returned"
    /\ chat_ret # Null
    /\ ~HasFence(chat_ret.s)
    /\ strip(chat_ret.s) # chat_ret.s
    /\ json_ret = Dict(K_score :> Num(3))

\* the fields of the configuration that the pipeline requires: every
\* question is a mapping with 'points'
ConfigComplete(qs) ==
    \A i \in 1..Len(qs) :
        IF qs[i].t # "dict" THEN FALSE ELSE K_points \in DOMAIN qs[i].m

\* C22: a configuration with a missing or malformed required field (a
\* question that is no mapping, a question without 'points') is rejected at
\* startup: no exam attempt is ever started on it
C22_BadConfigRejectedAtStartup ==
    ~ConfigComplete(questions) =>
        /\ pc \in {"startup", "startup_failed"}
        /\ started = 0

\* every question of the list has points above 0
AllPointsPositive(qs) ==
    \A i \in 1..Len(qs) :
        IF K_points \in DOMAIN qs[i].m THEN qs[i].m[K_points].n > 0 ELSE FALSE

\* C23: in an attempt that reached the fill, on questions that all have
\* points above 0, the score written to the field is at least 0 and at most
\* max_score, the sum of the questions' points, whatever the endpoint
\* replied and however it failed
C23_WrittenScoreInRange ==
    (Filled /\ AllPointsPositive(questions)) =>
        /\ report.max_score = SumPoints(questions)
        /\ NumberShown(field_value.s) >= 0
        /\ NumberShown(field_value.s) <= report.max_score
        /\ \A i \in 1..Len(judge_results) :
              /\ judge_results[i].m[K_score].n >= 0
              /\ judge_results[i].m[K_score].n <= questions[i].m[K_points].n

\* the full score was written after replies above the range
C23_Witness ==
    /\ Filled
    /\ Len(questions) = 2
    /\ AllPointsPositive(questions)
    /\ report.max_score > 0
    /\ NumberShown(field_value.s) = report.max_score
    /\ exam_log[Len(exam_log)].step = "fill"

\* a zero was written after the endpoint failed on every question
C23_WitnessZero ==
    /\ Filled
    /\ Len(questions) = 2
    /\ field_value = Str(<<"0">>)
    /\ exam_log[Len(exam_log)].step = "fill"

\* C24: the processed counter counts the attempts in which a score was
\* written to the field: an attempt from which process_exam returns False
\* has written no score
C24_FailedAttemptWroteNothing ==
    (pc = "exam_returned" /\ ~success) => ~Filled

\* C25: for every max_retries, zero and negative ones too, chat returns only
\* the text of a completion call that succeeded, and chat_json raises
\* nothing but the exhaustion error of chat
C25_ChatReturnsOnlyAfterSuccess ==
    /\ pc = "chat_returned" =>
          /\ chat_ret # Null
          /\ events # <<>>
          /\ events[Len(events)] = CallEvent(TRUE, chat_ret.s)
    /\ pc = "chat_json_raised" => raised = ChatError

RECURSIVE SumCalls(_)
SumCalls(log) ==
    IF log = <<>> THEN 0 ELSE log[1].calls + SumCalls(Tail(log))

\* the attempt has generated its report
Aggregated == EventsOf("aggregate") # <<>>

\* C26: in an attempt on N questions with max_retries R >= 1 at most R
\* completion calls are made for a question and at most N * R in all, and
\* in an attempt that reached the aggregation chat_json was called once for
\* each question, in order, N times in all
C26_CompletionCallsBounded ==
    max_retries >= 1 =>
        /\ \A k \in 1..Len(EventsOf("judge_return")) :
              EventsOf("judge_return")[k].calls <= max_retries
        /\ SumCalls(exam_log) <= Len(questions) * max_retries
        /\ Aggregated =>
              /\ Len(EventsOf("judge_call")) = Len(questions)
              /\ Len(EventsOf("judge_return")) = Len(questions)
              /\ \A k \in 1..Len(questions) :
                    /\ EventsOf("judge_return")[k].ok
                    /\ EventsOf("judge_return")[k].q = k
                    /\ EventsOf("judge_return")[k].calls >= 1

\* an aggregation after the endpoint failed on every call for two questions
C26_Witness ==
    /\ Aggregated
    /\ Len(questions) = 2
    /\ max_retries > 1
    /\ SumCalls(exam_log) = 2 * max_retries

\* C27: when process_exam generates the report the judge result list has as
\* many entries as the question list of the calculator and entry i is the
\* judgment of question i, so the report has a detail for every question
\* and none is cut off
C27_ReportListsAligned ==
    Aggregated =>
        /\ Len(judge_results) = Len(questions)
        /\ Len(report.details) = Len(questions)
        /\ \A i \in 1..Len(questions) :
              /\ EventsOf("judge_return")[i].q = i
              /\ judge_results[i].m[K_score].n = EventsOf("judge_return")[i].val
              /\ report.details[i].score = judge_results[i].m[K_score].n
              /\ report.details[i].max_points =
                    Get(questions[i].m, K_points, Num(0)).n
              /\ report.details[i].question_id = questions[i].m[K_id]

\* the report of a second exam on two questions
C27_Witness ==
    /\ Aggregated
    /\ started = 2
    /\ Len(questions) = 2
    /\ Len(report.details) = 2
    /\ report.details[1].question_id # report.details[2].question_id

====
